---- MODULE Spec2Model ----
(***************************************************************************)
(* Model of word-addin-dev.js: the argument resolution, the manifest       *)
(* validator, the pid-file / port reapers, the detached launcher, the      *)
(* health poller and the sequencing done by main().                        *)
(*                                                                         *)
(* JavaScript strings are sequences of one-character strings.  JavaScript  *)
(* values of mixed type are tagged records, so that TLC never compares     *)
(* values of different shapes.                                             *)
(***************************************************************************)
EXTENDS Integers, Sequences, FiniteSets, TLC

VARIABLES
    args,          \* parseArgs(process.argv.slice(2)): the raw options
    cfg,           \* the constants main() resolves from args (lines 262-275)
    pc,            \* position of main()
    executed,      \* orchestrator states whose body ran, in order
    issues,        \* the list validateManifestText returned (<<>> before)
    pid,           \* main's local `pid`, the result of startServerDetached
    err,           \* the Error main() threw (<<>> when none)
    pendingError,  \* a spawn 'error' event queued by process.nextTick
    home,          \* process.env.HOME as main has observed it so far
    pidFile,       \* the file at pidPath
    logFile,       \* the file at logPath
    effects,       \* every external call made, in order
    hcall,         \* the (attempts, delayMs) waitForHealth is called with
    hp,            \* waitForHealth's locals, and how its last fetch settled
    hpResult,      \* "none", "running", "ok" (returned true) or "failed" (threw)
    stdout,        \* records written to process.stdout
    stderr,        \* records written to process.stderr
    exitCode,      \* [t |-> "running"], [t |-> "code", n |-> 0 or 1] or signal
    manifestFile,  \* the file at manifestPath as main has observed it so far
    inv            \* two invocations running side by side (SpecTwo only)

vars == <<args, cfg, pc, executed, issues, pid, err, pendingError, home,
          pidFile, logFile, effects, hcall, hp, hpResult, stdout, stderr,
          exitCode, manifestFile, inv>>

---------------------------------------------------------------------------
(* Bounds of the model.                                                    *)

\* longest pid-file content drawn by InitPidFile
MaxPidFileLen == 3
\* largest `attempts` argument drawn by InitPoller
MaxAttemptsArg == 3
\* largest `delayMs` argument drawn by InitPoller
MaxDelayArg == 2
\* most listeners the port lookup reports
MaxListeners == 2

\* most invocations in a sequence of runs sharing one pid file (SpecRuns)
MaxRuns == 3

\* most DefaultValue attributes in a manifest drawn by InitValidator
MaxAttrs == 3

(* Program constants.                                                      *)
DefaultAttempts == 12
DefaultDelayMs == 400
MainAttempts == 12
MainDelayMs == 400
DefaultPort == 4321
IssueValueLimit == 120

---------------------------------------------------------------------------
(* JavaScript values.                                                      *)

Undef == [t |-> "undefined"]
Null == [t |-> "null"]
Bool(b) == [t |-> "boolean", b |-> b]
Str(s) == [t |-> "string", s |-> s]
Num(n) == [t |-> "number", fin |-> TRUE, n |-> n]
NaN == [t |-> "number", fin |-> FALSE, n |-> 0]

Min(a, b) == IF a < b THEN a ELSE b

Digits == <<"0", "1", "2", "3", "4", "5", "6", "7", "8", "9">>
IsDigit(c) == \E i \in 1..10 : Digits[i] = c
DigitVal(c) == (CHOOSE i \in 1..10 : Digits[i] = c) - 1

RECURSIVE TrimStart(_)
TrimStart(s) == IF s # <<>> /\ Head(s) = " " THEN TrimStart(Tail(s)) ELSE s

RECURSIVE TrimEnd(_)
TrimEnd(s) ==
    IF s # <<>> /\ s[Len(s)] = " " THEN TrimEnd(SubSeq(s, 1, Len(s) - 1)) ELSE s

\* String.prototype.trim
Trim(s) == TrimEnd(TrimStart(s))

RECURSIVE DecimalValue(_)
DecimalValue(s) ==
    IF s = <<>> THEN 0
    ELSE 10 * DecimalValue(SubSeq(s, 1, Len(s) - 1)) + DigitVal(s[Len(s)])

AllDigits(s) == s # <<>> /\ \A i \in 1..Len(s) : IsDigit(s[i])

\* Number(string), for strings over blanks, digits, "-" and letters: white
\* space is stripped, the empty string is 0, an optionally signed run of
\* digits is its value, anything else is NaN.
NumberOfString(s) ==
    LET t == Trim(s) IN
    IF t = <<>> THEN Num(0)
    ELSE IF AllDigits(t) THEN Num(DecimalValue(t))
    ELSE IF Head(t) = "-" /\ AllDigits(Tail(t)) THEN Num(0 - DecimalValue(Tail(t)))
    ELSE NaN

RECURSIVE DecimalString(_)
DecimalString(n) ==
    IF n < 10 THEN <<Digits[n + 1]>>
    ELSE Append(DecimalString(n \div 10), Digits[(n % 10) + 1])

\* String(value) for the values written to the pid file
StringOf(v) ==
    IF v.t = "number" THEN DecimalString(v.n)
    ELSE <<"u", "n", "d", "e", "f", "i", "n", "e", "d">>

LowerChar(c) ==
    CASE c = "A" -> "a" [] c = "E" -> "e" [] c = "F" -> "f" [] c = "L" -> "l"
      [] c = "N" -> "n" [] c = "O" -> "o" [] c = "S" -> "s" [] c = "T" -> "t"
      [] c = "R" -> "r" [] c = "U" -> "u" [] c = "Y" -> "y" [] c = "B" -> "b"
      [] c = "H" -> "h" [] c = "W" -> "w" [] c = "D" -> "d"
      [] OTHER -> c

\* String.prototype.toLowerCase
ToLowerCase(s) == [i \in 1..Len(s) |-> LowerChar(s[i])]

StartsWith(s, p) == Len(s) >= Len(p) /\ SubSeq(s, 1, Len(p)) = p

---------------------------------------------------------------------------
(* boolArg, lines 24-30.                                                   *)

sFalse == <<"f", "a", "l", "s", "e">>
sZero == <<"0">>
sNo == <<"n", "o">>

boolArgTruthy(value, defaultValue) ==
    IF value.t = "undefined" THEN defaultValue
    ELSE IF value.t = "boolean" THEN value.b
    ELSE value.s # <<>>

boolArg(value, defaultValue) ==
    IF value.t = "undefined" THEN defaultValue
    ELSE IF value.t = "boolean" THEN value.b
    ELSE LET v == ToLowerCase(value.s) IN
         IF v = sFalse \/ v = sZero \/ v = sNo THEN FALSE ELSE TRUE

---------------------------------------------------------------------------
(* The validator, lines 45-78.  A manifest text is a sequence of segments: *)
(* a piece of markup, or one DefaultValue="..." attribute with its value.  *)

Markup(s) == [seg |-> "markup", s |-> s, v |-> <<>>]
DefaultValueAttr(v) == [seg |-> "attr", s |-> "DefaultValue", v |-> v]

\* String.prototype.includes for the three markers the validator looks for
Includes(xmlText, marker) ==
    \E i \in 1..Len(xmlText) : xmlText[i].seg = "markup" /\ xmlText[i].s = marker

KnownEscapes ==
    { <<"&", "a", "m", "p", ";">>, <<"&", "l", "t", ";">>, <<"&", "g", "t", ";">>,
      <<"&", "q", "u", "o", "t", ";">>, <<"&", "a", "p", "o", "s", ";">> }

RECURSIVE AmpWalk(_, _)
AmpWalk(value, i) ==
    IF i > Len(value) THEN FALSE
    ELSE IF value[i] = "&"
         THEN LET tail == SubSeq(value, i, Len(value)) IN
              IF \E e \in KnownEscapes : StartsWith(tail, e)
              THEN AmpWalk(value, i + 1)
              ELSE TRUE
         ELSE AmpWalk(value, i + 1)

hasUnescapedAmpAny(value) == \E i \in 1..Len(value) : value[i] = "&"

hasUnescapedAmp(value) == AmpWalk(value, 1)

\* the matches of /DefaultValue="([^"]*)"/g, in document order
RECURSIVE AttrValues(_)
AttrValues(xmlText) ==
    IF xmlText = <<>> THEN <<>>
    ELSE IF Head(xmlText).seg = "attr"
         THEN <<Head(xmlText).v>> \o AttrValues(Tail(xmlText))
         ELSE AttrValues(Tail(xmlText))

\* the while loop of lines 71-76: the first offending match, then break
RECURSIVE AmpIssues(_)
AmpIssues(values) ==
    IF values = <<>> THEN <<>>
    ELSE IF hasUnescapedAmp(Head(values))
         THEN << <<"unescaped & in DefaultValue: ",
                   SubSeq(Head(values), 1, Min(IssueValueLimit, Len(Head(values))))>> >>
         ELSE AmpIssues(Tail(values))

validateManifestText(xmlText) ==
    (IF Includes(xmlText, "<OfficeApp") THEN <<>> ELSE << <<"missing <OfficeApp>">> >>)
    \o (IF Includes(xmlText, "<Id>") THEN <<>> ELSE << <<"missing <Id>">> >>)
    \o (IF Includes(xmlText, "SourceLocation") THEN <<>> ELSE << <<"missing SourceLocation">> >>)
    \o AmpIssues(AttrValues(xmlText))

\* the manifests main() is run on
GoodText ==
    << Markup("<OfficeApp"), Markup("<Id>"), Markup("SourceLocation"),
       DefaultValueAttr(<<"A", " ", "&", "a", "m", "p", ";", " ", "B">>) >>
BadAmpText ==
    << Markup("<OfficeApp"), Markup("<Id>"), Markup("SourceLocation"),
       DefaultValueAttr(<<"A", " ", "&", " ", "B">>) >>
NoIdText == << Markup("<OfficeApp"), Markup("SourceLocation") >>
ManifestTexts == {GoodText, BadAmpText, NoIdText}

---------------------------------------------------------------------------
(* Argument resolution, lines 262-275.                                     *)

sWord == <<"w", "o", "r", "d">>
sExcel == <<"e", "x", "c", "e", "l">>
sBoth == <<"b", "o", "t", "h">>
sTrue == <<"t", "r", "u", "e">>

\* JavaScript truthiness of an option value
Truthy(v) ==
    CASE v.t = "undefined" -> FALSE
      [] v.t = "null" -> FALSE
      [] v.t = "boolean" -> v.b
      [] v.t = "string" -> v.s # <<>>
      [] v.t = "number" -> v.fin /\ v.n # 0

DefaultHealthUrl(port) == <<"http://localhost:", port, "/api/health">>

ResolvedConfigRestartFromManifest(a) ==
    LET manifestPath == IF Truthy(a.manifest) THEN a.manifest ELSE Null
        port == IF Truthy(a.port) THEN NumberOfString(a.port.s) ELSE Num(DefaultPort)
        sideload == boolArg(a.sideload, manifestPath.t # "null")
    IN  [ manifestPath |-> manifestPath,
          appValue |-> ToLowerCase(IF Truthy(a.app) THEN a.app.s ELSE sWord),
          port |-> port,
          serverCmd |-> IF Truthy(a.serverCmd) THEN a.serverCmd ELSE Null,
          healthUrl |-> IF Truthy(a.healthUrl) THEN <<a.healthUrl.s>>
                        ELSE DefaultHealthUrl(port),
          sideload |-> sideload,
          restart |-> boolArg(a.restart, manifestPath.t # "null"),
          clearCache |-> boolArg(a.clearCache, FALSE),
          validate |-> boolArg(a.validate, TRUE),
          health |-> boolArg(a.health, TRUE),
          killPortFlag |-> boolArg(a.killPort, TRUE) ]

ResolvedConfig(a) ==
    LET manifestPath == IF Truthy(a.manifest) THEN a.manifest ELSE Null
        port == IF Truthy(a.port) THEN NumberOfString(a.port.s) ELSE Num(DefaultPort)
        sideload == boolArg(a.sideload, manifestPath.t # "null")
    IN  [ manifestPath |-> manifestPath,
          appValue |-> ToLowerCase(IF Truthy(a.app) THEN a.app.s ELSE sWord),
          port |-> port,
          serverCmd |-> IF Truthy(a.serverCmd) THEN a.serverCmd ELSE Null,
          healthUrl |-> IF Truthy(a.healthUrl) THEN <<a.healthUrl.s>>
                        ELSE DefaultHealthUrl(port),
          sideload |-> sideload,
          restart |-> boolArg(a.restart, sideload),
          clearCache |-> boolArg(a.clearCache, FALSE),
          validate |-> boolArg(a.validate, TRUE),
          health |-> boolArg(a.health, TRUE),
          killPortFlag |-> boolArg(a.killPort, TRUE) ]

NoArgs ==
    [ help |-> Undef, manifest |-> Undef, app |-> Undef, port |-> Undef,
      serverCmd |-> Undef, healthUrl |-> Undef, sideload |-> Undef,
      restart |-> Undef, clearCache |-> Undef, validate |-> Undef,
      health |-> Undef, killPort |-> Undef ]

\* the value of cfg before main() has resolved it
NoCfg == ResolvedConfig(NoArgs)

\* resolveAppTargets, lines 151-158: <<>> stands for the throw
resolveAppTargets(appValue) ==
    LET app == ToLowerCase(IF appValue = <<>> THEN sWord ELSE appValue) IN
    (IF app = sWord \/ app = sBoth THEN <<"Microsoft Word">> ELSE <<>>)
    \o (IF app = sExcel \/ app = sBoth THEN <<"Microsoft Excel">> ELSE <<>>)

\* the wef directories of sideloadMacManifest, lines 217-223
sideloadTargets(appValue) ==
    (IF appValue = sWord \/ appValue = sBoth THEN <<"com.microsoft.Word">> ELSE <<>>)
    \o (IF appValue = sExcel \/ appValue = sBoth THEN <<"com.microsoft.Excel">> ELSE <<>>)

---------------------------------------------------------------------------
(* The state main() starts in.                                             *)

sManifest == <<"m", ".", "x", "m", "l">>
sServe == <<"s", "e", "r", "v", "e">>
sPaint == <<"p", "a", "i", "n", "t">>
sHealthz == <<"h", "t", "t", "p", ":", "/", "/", "h", "/", "z">>

Absent == [kind |-> "absent", data |-> <<>>]
Unreadable == [kind |-> "unreadable", data |-> <<>>]
File(data) == [kind |-> "file", data |-> data]

Unread == [kind |-> "unread", text |-> <<>>]
NoManifest == [kind |-> "absent", text |-> <<>>]
Manifest(xmlText) == [kind |-> "file", text |-> xmlText]

NoHp == [maxAttempts |-> 0, waitMs |-> 0, i |-> 0, url |-> <<>>, last |-> "none"]
Running == [t |-> "running", n |-> 0]
Exited(n) == [t |-> "code", n |-> n]
Signalled == [t |-> "signal", n |-> 15]
Unassigned == [t |-> "unassigned"]

\* an invocation that has not been started
Idle == [pc |-> "idle", killPort |-> TRUE, pid |-> Unassigned,
         pendingError |-> FALSE, out |-> <<>>, exitCode |-> Running]

\* the option sets main() is run with: help alone, or any combination of
\* the options that steer the states
ArgsMain ==
    { [NoArgs EXCEPT !.help = Bool(TRUE)] }
    \cup
    { [NoArgs EXCEPT !.manifest = m, !.app = a, !.serverCmd = c, !.sideload = s,
                     !.restart = r, !.clearCache = cc, !.validate = v,
                     !.health = h, !.killPort = k] :
        m \in {Undef, Str(sManifest)},
        a \in {Undef, Str(sPaint)},
        c \in {Undef, Str(sServe)},
        s \in {Undef, Str(sTrue), Str(sFalse)},
        r \in {Undef, Str(sTrue), Str(sFalse)},
        cc \in {Undef, Bool(TRUE)},
        v \in {Undef, Str(sNo)},
        h \in {Undef, Str(sZero)},
        k \in {Undef, Str(sFalse)} }
    \cup
    { [NoArgs EXCEPT !.port = Str(<<"0">>), !.serverCmd = c, !.health = h] :
        c \in {Undef, Str(sServe)}, h \in {Undef, Str(sZero)} }
    \cup
    { [NoArgs EXCEPT !.app = Str(<<"B", "o", "t", "h">>), !.manifest = m,
                     !.clearCache = cc, !.health = Str(sNo), !.healthUrl = u] :
        m \in {Undef, Str(sManifest)}, cc \in {Undef, Bool(TRUE)},
        u \in {Undef, Str(sHealthz)} }

MainPidFiles == {Absent, File(<<>>), File(<<"7">>)}

InitRun ==
    /\ cfg = NoCfg
    /\ pc = "main"
    /\ executed = <<>>
    /\ issues = <<>>
    /\ pid = Unassigned
    /\ err = <<>>
    /\ pendingError = FALSE
    /\ home = "unread"
    /\ logFile = Absent
    /\ effects = <<>>
    /\ hp = NoHp
    /\ hpResult = "none"
    /\ stdout = <<>>
    /\ stderr = <<>>
    /\ exitCode = Running
    /\ manifestFile = Unread
    /\ inv = <<Idle, Idle>>

Init ==
    /\ InitRun
    /\ args \in ArgsMain
    /\ pidFile \in MainPidFiles
    /\ hcall = [attempts |-> MainAttempts, delayMs |-> MainDelayMs]

osVars == <<pidFile, logFile, effects, home>>
hpVars == <<hcall, hp, hpResult>>
ioVars == <<stdout, stderr, exitCode>>

---------------------------------------------------------------------------
(* main(), lines 255-307: the order of its statements.                     *)

NextPcSwapped(state) ==
    CASE state = "validate" -> "clearCache"
      [] state = "clearCache" -> "sideload"
      [] state = "sideload" -> "launch"
      [] state = "launch" -> "reclaim"
      [] state = "reclaim" -> "restart"
      [] state = "restart" -> "health"
      [] state = "health" -> "done"

NextPc(state) ==
    CASE state = "validate" -> "clearCache"
      [] state = "clearCache" -> "sideload"
      [] state = "sideload" -> "reclaim"
      [] state = "reclaim" -> "launch"
      [] state = "launch" -> "health"
      [] state = "health" -> "restart"
      [] state = "restart" -> "done"

Advance(state) == pc' = NextPc(state) /\ err' = err
Throw(e) == pc' = "rejected" /\ err' = e

\* process.env.HOME is one value for the whole run
HomeReads == IF home = "unread" THEN {"set", "unset"} ELSE {home}

\* lines 256-275
ResolveConfig ==
    /\ pc = "main"
    /\ IF Truthy(args.help) \* \/ args._[0] === 'help'
       THEN /\ stdout' = Append(stdout, [kind |-> "usage", pid |-> <<>>, port |-> NaN])
            /\ pc' = "returned"
            /\ cfg' = cfg
       ELSE /\ cfg' = ResolvedConfig(args)
            /\ pc' = "validate"
            /\ stdout' = stdout
    /\ UNCHANGED <<args, manifestFile, inv, executed, issues, pid, err, pendingError, osVars, hpVars,
                   stderr, exitCode>>

\* `issues.length`, line 83
ManifestRejectedNever(found) == FALSE

ManifestRejected(found) == Len(found) > 0

\* readFileSync(manifestPath, 'utf8'), line 81: the file is one text for the run
ManifestReads ==
    IF manifestFile.kind = "unread"
    THEN {NoManifest} \cup { Manifest(t) : t \in ManifestTexts }
    ELSE {manifestFile}

\* lines 277-279 and validateManifestFile, lines 80-86
Validate ==
    /\ pc = "validate"
    /\ IF cfg.manifestPath.t # "null" /\ cfg.validate
       THEN /\ executed' = Append(executed, "VALIDATE")
            /\ manifestFile' \in ManifestReads
            /\ IF manifestFile'.kind = "absent"
               THEN /\ Throw(<<"ENOENT: no such file or directory", cfg.manifestPath.s>>)
                    /\ issues' = issues
               ELSE /\ issues' = validateManifestText(manifestFile'.text)
                    /\ IF ManifestRejected(issues')
                       THEN Throw(<<"Manifest invalid: ", issues'>>)
                       ELSE Advance("validate")
       ELSE /\ Advance("validate")
            /\ UNCHANGED <<executed, issues, manifestFile>>
    /\ UNCHANGED <<args, inv, cfg, pid, pendingError, osVars, hpVars, ioVars>>

\* the trash calls clearOfficeCache makes for `targets` when the exec of
\* target number failAt throws (0: none throws)
RECURSIVE TrashEffects(_, _)
TrashEffects(targets, failAt) ==
    IF targets = <<>> \/ failAt = 1 THEN <<>>
    ELSE << <<"trash", Head(targets)>> >>
         \o TrashEffects(Tail(targets), IF failAt = 0 THEN 0 ELSE failAt - 1)

\* lines 281-283, clearOfficeCache (193-212) and trashPaths (181-191)
ClearCache ==
    /\ pc = "clearCache"
    /\ IF cfg.clearCache
       THEN /\ executed' = Append(executed, "CLEAR_CACHE")
            /\ \/ \* process.platform !== 'darwin'
                  /\ Advance("clearCache")
                  /\ UNCHANGED <<home, effects>>
               \/ \E h \in HomeReads :
                    /\ home' = h
                    /\ LET targets == resolveAppTargets(cfg.appValue) IN
                       IF h = "unset"
                       THEN Throw(<<"HOME not set">>) /\ effects' = effects
                       ELSE IF targets = <<>>
                       THEN Throw(<<"app must be word, excel, or both">>)
                            /\ effects' = effects
                       ELSE \/ /\ Throw(<<"trash command not found (install or skip --clear-cache)">>)
                               /\ effects' = effects
                            \/ \E failAt \in 0..Len(targets) :
                                 /\ effects' = effects \o TrashEffects(targets, failAt)
                                 /\ IF failAt = 0
                                    THEN Advance("clearCache")
                                    ELSE Throw(<<"Command failed: trash">>)
       ELSE /\ Advance("clearCache")
            /\ UNCHANGED <<executed, home, effects>>
    /\ UNCHANGED <<args, manifestFile, inv, cfg, issues, pid, pendingError, pidFile, logFile, hpVars,
                   ioVars>>

\* the copies sideloadMacManifest makes when copy number failAt throws
RECURSIVE CopyEffects(_, _)
CopyEffects(targets, failAt) ==
    IF targets = <<>> \/ failAt = 1 THEN <<>>
    ELSE << <<"copy", Head(targets)>> >>
         \o CopyEffects(Tail(targets), IF failAt = 0 THEN 0 ELSE failAt - 1)

\* lines 285-288 and sideloadMacManifest, lines 214-229
Sideload ==
    /\ pc = "sideload"
    /\ IF cfg.sideload
       THEN /\ executed' = Append(executed, "INSTALL")
            /\ IF cfg.manifestPath.t = "null"
               THEN /\ Throw(<<"manifest is required when sideload=true">>)
                    /\ UNCHANGED <<home, effects>>
               ELSE \E h \in HomeReads :
                    /\ home' = h
                    /\ LET targets == sideloadTargets(cfg.appValue) IN
                       IF h = "unset"
                       THEN Throw(<<"HOME not set">>) /\ effects' = effects
                       ELSE IF targets = <<>>
                       THEN Throw(<<"app must be word, excel, or both">>)
                            /\ effects' = effects
                       ELSE \E failAt \in 0..Len(targets) :
                              /\ effects' = effects \o CopyEffects(targets, failAt)
                              /\ IF failAt = 0
                                 THEN Advance("sideload")
                                 ELSE Throw(<<"copyfile failed">>)
       ELSE /\ Advance("sideload")
            /\ UNCHANGED <<executed, home, effects>>
    /\ UNCHANGED <<args, manifestFile, inv, cfg, issues, pid, pendingError, pidFile, logFile, hpVars,
                   ioVars>>

---------------------------------------------------------------------------
(* The reapers.                                                            *)

\* the pids a lookup on the port can report, oldest listener first
ListenerLists == { [i \in 1..k |-> 6 + i] : k \in 0..MaxListeners }

\* process.kill(n) from inside the try blocks of lines 112-116 and 125-129:
\* the signal call made; whatever kill reports back is swallowed
RECURSIVE KillEffects(_)
KillEffects(pids) ==
    IF pids = <<>> THEN <<>>
    ELSE << <<"kill", Head(pids)>> >> \o KillEffects(Tail(pids))

\* kill(0) signals the caller's own process group
KillsSelf(n) == n = 0

\* line 290: which reaper runs
UsePortReaperAlways == TRUE

UsePortReaperNever == FALSE

UsePortReaper == cfg.killPortFlag

\* lines 290-291 and killPort, lines 119-134
KillPort ==
    /\ pc = "reclaim"
    /\ UsePortReaper
    /\ executed' = Append(executed, "RECLAIM_PORT")
    /\ IF ~(cfg.port.fin /\ cfg.port.n # 0)
       THEN effects' = Append(effects, <<"killPort", cfg.port>>)
       ELSE \/ \* lsof is missing, or exits 1 because nothing listens
               effects' = effects \o << <<"killPort", cfg.port>>, <<"lsof", cfg.port.n>> >>
            \/ \E pids \in ListenerLists :
                 effects' = effects
                            \o << <<"killPort", cfg.port>>, <<"lsof", cfg.port.n>> >>
                            \o KillEffects(pids)
    /\ Advance("reclaim")
    /\ UNCHANGED <<args, manifestFile, inv, cfg, issues, pid, pendingError, pidFile, logFile, home,
                   hpVars, ioVars>>

\* lines 292-294 and killPidFile, lines 107-117
KillPidFile ==
    /\ pc = "reclaim"
    /\ ~UsePortReaper
    /\ executed' = Append(executed, "RECLAIM_PORT")
    /\ LET n == NumberOfString(Trim(pidFile.data)) IN
       CASE pidFile.kind = "absent" ->
              /\ effects' = Append(effects, <<"killPidFile">>)
              /\ Advance("reclaim")
              /\ exitCode' = exitCode
         [] pidFile.kind = "unreadable" ->
              /\ effects' = effects \o << <<"killPidFile">>, <<"readpid">> >>
              /\ Throw(<<"EISDIR: illegal operation on a directory, read">>)
              /\ exitCode' = exitCode
         [] pidFile.kind = "file" /\ ~n.fin ->
              /\ effects' = effects \o << <<"killPidFile">>, <<"readpid">> >>
              /\ Advance("reclaim")
              /\ exitCode' = exitCode
         [] pidFile.kind = "file" /\ n.fin /\ ~KillsSelf(n.n) ->
              /\ effects' = effects \o << <<"killPidFile">>, <<"readpid">>, <<"kill", n.n>> >>
              /\ Advance("reclaim")
              /\ exitCode' = exitCode
         [] pidFile.kind = "file" /\ n.fin /\ KillsSelf(n.n) ->
              \* the SIGTERM reaches this process too: default action, it dies
              /\ effects' = effects \o << <<"killPidFile">>, <<"readpid">>, <<"kill", n.n>> >>
              /\ pc' = "exited"
              /\ err' = err
              /\ exitCode' = Signalled
    /\ UNCHANGED <<args, manifestFile, inv, cfg, issues, pid, pendingError, pidFile, logFile, home,
                   hpVars, stdout, stderr>>

---------------------------------------------------------------------------
(* The launcher: line 296 and startServerDetached, lines 136-149.          *)

\* the identifiers the OS gives a new process
SpawnPids == {8, 12}

LaunchPrefix ==
    << <<"mkdir", "pid">>, <<"mkdir", "log">>, <<"openlog">> >>

\* `if (!serverCmd) return null`, line 137
NoServerCmdNever == FALSE

NoServerCmd == cfg.serverCmd.t = "null"

Launch ==
    /\ pc = "launch"
    /\ executed' = Append(executed, "LAUNCH")
    /\ IF NoServerCmd
       THEN /\ pid' = Null
            /\ Advance("launch")
            /\ UNCHANGED <<pidFile, logFile, effects, pendingError>>
       ELSE \/ \* ensureDir throws
               /\ effects' = Append(effects, <<"mkdir", "pid">>)
               /\ Throw(<<"EACCES: permission denied, mkdir">>)
               /\ UNCHANGED <<pid, pidFile, logFile, pendingError>>
            \/ \* openSync throws
               /\ effects' = effects \o << <<"mkdir", "pid">>, <<"mkdir", "log">> >>
               /\ Throw(<<"EACCES: permission denied, open">>)
               /\ UNCHANGED <<pid, pidFile, logFile, pendingError>>
            \/ \* spawn throws
               /\ effects' = effects \o LaunchPrefix \o << <<"spawnfail", "throw">> >>
               /\ logFile' = File(logFile.data)
               /\ Throw(<<"spawn ENOMEM">>)
               /\ UNCHANGED <<pid, pidFile, pendingError>>
            \/ \* spawn fails with EAGAIN, EMFILE, ENFILE, EACCES or ENOENT: the
               \* child has no pid and its 'error' event is queued for the next tick
               /\ effects' = effects \o LaunchPrefix
                             \o << <<"spawnfail", "event">>, <<"writepid", StringOf(Undef)>> >>
               /\ logFile' = File(logFile.data)
               /\ pidFile' = File(StringOf(Undef))
               /\ pendingError' = TRUE
               /\ pid' = Undef
               /\ Advance("launch")
            \/ \E p \in SpawnPids :
                 /\ logFile' = File(logFile.data)
                 /\ \/ \* writeFileSync throws
                       /\ effects' = effects \o LaunchPrefix \o << <<"spawn", p>> >>
                       /\ Throw(<<"EACCES: permission denied, open">>)
                       /\ UNCHANGED <<pid, pidFile, pendingError>>
                    \/ /\ effects' = effects \o LaunchPrefix
                                     \o << <<"spawn", p>>, <<"writepid", StringOf(Num(p))>> >>
                       /\ pidFile' = File(StringOf(Num(p)))
                       /\ pid' = Num(p)
                       /\ pendingError' = pendingError
                       /\ Advance("launch")
    /\ UNCHANGED <<args, manifestFile, inv, cfg, issues, home, hpVars, ioVars>>

---------------------------------------------------------------------------
(* The health poller: lines 298-300 and waitForHealth, lines 92-105.       *)

\* `value || fallback` on a number
OrDefault(value, fallback) == IF value = 0 THEN fallback ELSE value

HealthCheck ==
    /\ pc = "health"
    /\ IF cfg.health
       THEN /\ executed' = Append(executed, "HEALTH_CHECK")
            /\ hp' = [ maxAttempts |-> OrDefault(hcall.attempts, DefaultAttempts),
                       waitMs |-> OrDefault(hcall.delayMs, DefaultDelayMs),
                       i |-> 0,
                       url |-> cfg.healthUrl,
                       last |-> "none" ]
            /\ hpResult' = "running"
            /\ pc' = "hp_loop"
            /\ err' = err
       ELSE /\ Advance("health")
            /\ UNCHANGED <<executed, hp, hpResult>>
    /\ UNCHANGED <<args, manifestFile, inv, cfg, issues, pid, pendingError, osVars, hcall, ioVars>>

\* what waitForHealth does once the loop condition fails, line 104
ExhaustedReturnsFalse ==
    /\ Advance("health")
    /\ hpResult' = "failed"

Exhausted ==
    /\ Throw(<<"server not healthy at ", hp.url>>)
    /\ hpResult' = "failed"

\* the loop condition, line 95
MoreAttemptsOffByOne == hp.i <= hp.maxAttempts

MoreAttempts == hp.i < hp.maxAttempts

\* `res.ok`, line 98
SettledOkAny(r) == r # "error"

SettledOk(r) == r = "ok"

\* the loop condition and the fetch, lines 95-97
HealthAttempt ==
    /\ pc = "hp_loop"
    /\ IF MoreAttempts
       THEN /\ effects' = Append(effects, <<"fetch", hp.url>>)
            /\ hp' = [hp EXCEPT !.last = "pending"]
            /\ pc' = "hp_fetch"
            /\ UNCHANGED <<err, hpResult>>
       ELSE /\ Exhausted
            /\ UNCHANGED <<effects, hp>>
    /\ UNCHANGED <<args, manifestFile, inv, cfg, executed, issues, pid, pendingError, pidFile, logFile,
                   home, hcall, ioVars>>

\* the fetch settles, lines 97-101; a queued tick runs before any response
HealthResponse ==
    /\ pc = "hp_fetch"
    /\ ~pendingError
    /\ \E r \in {"ok", "not ok", "error"} :
         /\ effects' = Append(effects, <<"settled">>)
         /\ hp' = [hp EXCEPT !.last = r]
         /\ IF SettledOk(r)
            THEN Advance("health") /\ hpResult' = "ok"
            ELSE pc' = "hp_sleep" /\ UNCHANGED <<err, hpResult>>
    /\ UNCHANGED <<args, manifestFile, inv, cfg, executed, issues, pid, pendingError, pidFile, logFile,
                   home, hcall, ioVars>>

\* await sleep(waitMs) and i += 1, lines 102 and 95
HealthSleep ==
    /\ pc = "hp_sleep"
    /\ effects' = Append(effects, <<"sleep", hp.waitMs>>)
    /\ hp' = [hp EXCEPT !.i = @ + 1]
    /\ pc' = "hp_loop"
    /\ UNCHANGED <<args, manifestFile, inv, cfg, executed, issues, pid, err, pendingError, pidFile,
                   logFile, home, hcall, hpResult, ioVars>>

---------------------------------------------------------------------------
(* The restart, the confirmation and the ways the process ends.            *)

\* the quit and open calls restartApps makes when the open of target number
\* failAt throws (0: none throws); a failing quit is swallowed
RECURSIVE RestartEffects(_, _)
RestartEffects(targets, failAt) ==
    IF targets = <<>> THEN <<>>
    ELSE IF failAt = 1
    THEN << <<"quit", Head(targets)>>, <<"openfail", Head(targets)>> >>
    ELSE << <<"quit", Head(targets)>>, <<"open", Head(targets)>> >>
         \o RestartEffects(Tail(targets), IF failAt = 0 THEN 0 ELSE failAt - 1)

\* lines 302-304 and restartApps, lines 160-170
Restart ==
    /\ pc = "restart"
    /\ IF cfg.restart
       THEN /\ executed' = Append(executed, "RESTART_APP")
            /\ LET targets == resolveAppTargets(cfg.appValue) IN
               IF targets = <<>>
               THEN Throw(<<"app must be word, excel, or both">>) /\ effects' = effects
               ELSE \E failAt \in 0..Len(targets) :
                      /\ effects' = effects \o RestartEffects(targets, failAt)
                      /\ IF failAt = 0
                         THEN Advance("restart")
                         ELSE Throw(<<"Command failed: open -a">>)
       ELSE /\ Advance("restart")
            /\ UNCHANGED <<executed, effects>>
    /\ UNCHANGED <<args, manifestFile, inv, cfg, issues, pid, pendingError, pidFile, logFile, home,
                   hpVars, ioVars>>

sNone == <<"n", "o", "n", "e">>

\* line 306
Done ==
    /\ pc = "done"
    /\ executed' = Append(executed, "DONE")
    /\ stdout' = Append(stdout, [ kind |-> "ok",
                                  pid |-> IF Truthy(pid) THEN StringOf(pid) ELSE sNone,
                                  port |-> cfg.port ])
    /\ pc' = "returned"
    /\ UNCHANGED <<args, manifestFile, inv, cfg, issues, pid, err, pendingError, osVars, hpVars, stderr,
                   exitCode>>

\* main's promise is fulfilled and nothing is left to run
Exit ==
    /\ pc = "returned"
    /\ ~pendingError
    /\ exitCode' = Exited(0)
    /\ pc' = "exited"
    /\ UNCHANGED <<args, manifestFile, inv, cfg, executed, issues, pid, err, pendingError, osVars,
                   hpVars, stdout, stderr>>

CatchWithoutExitCode ==
    /\ pc = "rejected"
    /\ stderr' = Append(stderr, err)
    /\ exitCode' = Exited(0)
    /\ pc' = "exited"
    /\ UNCHANGED <<args, manifestFile, inv, cfg, executed, issues, pid, err, pendingError, osVars,
                   hpVars, stdout>>

CatchWithRollback ==
    /\ pc = "rejected"
    /\ stderr' = Append(stderr, err)
    /\ exitCode' = Exited(1)
    /\ pc' = "exited"
    /\ effects' = IF pid.t = "number" THEN Append(effects, <<"kill", pid.n>>) ELSE effects
    /\ pidFile' = IF pid.t = "number" THEN Absent ELSE pidFile
    /\ UNCHANGED <<args, manifestFile, inv, cfg, executed, issues, pid, err, pendingError,
                   logFile, home, hpVars, stdout>>

\* lines 309-312
Catch ==
    /\ pc = "rejected"
    /\ stderr' = Append(stderr, err)
    /\ exitCode' = Exited(1)
    /\ pc' = "exited"
    /\ UNCHANGED <<args, manifestFile, inv, cfg, executed, issues, pid, err, pendingError, osVars,
                   hpVars, stdout>>

\* the queued 'error' event of the child of line 141 is emitted once main()
\* yields; nothing listens for it, so it is an uncaught exception: exit code 1
Crash ==
    /\ pendingError
    /\ pc \in {"hp_fetch", "returned", "rejected"}
    /\ stderr' = Append(stderr, <<"Unhandled 'error' event", "spawn">>)
    /\ exitCode' = Exited(1)
    /\ pendingError' = FALSE
    /\ pc' = "exited"
    /\ UNCHANGED <<args, manifestFile, inv, cfg, executed, issues, pid, err, osVars, hpVars, stdout>>

Next ==
    \/ ResolveConfig
    \/ Validate
    \/ ClearCache
    \/ Sideload
    \/ KillPort
    \/ KillPidFile
    \/ Launch
    \/ HealthCheck
    \/ HealthAttempt
    \/ HealthResponse
    \/ HealthSleep
    \/ Restart
    \/ Done
    \/ Exit
    \/ Catch
    \/ Crash

Spec == Init /\ [][Next]_vars

---------------------------------------------------------------------------
(* Invocations one after another: each is a new process running main(),    *)
(* and the files the previous ones left are what it finds.                 *)

RunsArgs ==
    { [NoArgs EXCEPT !.serverCmd = Str(sServe), !.killPort = Str(sFalse),
                     !.health = Str(sZero)] }

InitRuns ==
    /\ InitRun
    /\ args \in RunsArgs
    /\ pidFile = Absent
    /\ hcall = [attempts |-> MainAttempts, delayMs |-> MainDelayMs]

\* the invocations started so far
Invocations == 1 + Cardinality({ i \in 1..Len(effects) : effects[i] = <<"run">> })

\* the previous process has exited; the next one starts at line 255
NextInvocation ==
    /\ pc = "exited"
    /\ Invocations < MaxRuns
    /\ effects' = Append(effects, <<"run">>)
    /\ args' \in RunsArgs
    /\ cfg' = NoCfg
    /\ pc' = "main"
    /\ executed' = <<>>
    /\ issues' = <<>>
    /\ pid' = Unassigned
    /\ err' = <<>>
    /\ pendingError' = FALSE
    /\ home' = "unread"
    /\ hp' = NoHp
    /\ hpResult' = "none"
    /\ stdout' = <<>>
    /\ stderr' = <<>>
    /\ exitCode' = Running
    /\ UNCHANGED <<pidFile, logFile, manifestFile, hcall, inv>>

NextRuns ==
    \/ ResolveConfig
    \/ Validate
    \/ ClearCache
    \/ Sideload
    \/ KillPidFile
    \/ Launch
    \/ HealthCheck
    \/ Restart
    \/ Done
    \/ Exit
    \/ Catch
    \/ Crash
    \/ NextInvocation

SpecRuns == InitRuns /\ [][NextRuns]_vars

---------------------------------------------------------------------------
(* Two invocations side by side on one pid file and one log file, each     *)
(* with a server command and the health check off.  Each is a process of   *)
(* its own, so the statements of the two interleave call by call: the      *)
(* reaper of line 290-294, the spawn of line 141, the write of line 147    *)
(* and the confirmation of line 306 are separate steps.                    *)

runVars == <<args, cfg, pc, executed, issues, pid, err, pendingError, home,
             manifestFile, hcall, hp, hpResult, stdout, stderr, exitCode>>

Started(killPortFlag) ==
    [pc |-> "reclaim", killPort |-> killPortFlag, pid |-> Unassigned,
     pendingError |-> FALSE, out |-> <<>>, exitCode |-> Running]

InitTwo ==
    /\ args = NoArgs
    /\ cfg = NoCfg
    /\ pc = "main"
    /\ executed = <<>>
    /\ issues = <<>>
    /\ pid = Unassigned
    /\ err = <<>>
    /\ pendingError = FALSE
    /\ home = "unread"
    /\ manifestFile = Unread
    /\ hcall = [attempts |-> MainAttempts, delayMs |-> MainDelayMs]
    /\ hp = NoHp
    /\ hpResult = "none"
    /\ stdout = <<>>
    /\ stderr = <<>>
    /\ exitCode = Running
    /\ pidFile \in MainPidFiles
    /\ logFile = Absent
    /\ effects = <<>>
    /\ inv \in { <<Started(a), Started(b)>> : a \in BOOLEAN, b \in BOOLEAN }

Other(k) == 3 - k

\* the processes the two invocations have launched
LaunchedBy(k) == IF inv[k].pid.t = "number" THEN {inv[k].pid.n} ELSE {}

\* lines 290-294 in invocation k
TwoReclaim(k) ==
    /\ inv[k].pc = "reclaim"
    /\ IF inv[k].killPort
       THEN \* killPort: lsof reports nothing, or the server of the other invocation
            /\ \E pids \in {<<>>} \cup { <<p>> : p \in LaunchedBy(Other(k)) } :
                 effects' = effects \o << <<"killPort", k>>, <<"lsof", DefaultPort>> >>
                            \o KillEffects(pids)
            /\ inv' = [inv EXCEPT ![k].pc = "spawn"]
       ELSE LET n == NumberOfString(Trim(pidFile.data)) IN
            CASE pidFile.kind = "absent" ->
                   /\ effects' = Append(effects, <<"killPidFile", k>>)
                   /\ inv' = [inv EXCEPT ![k].pc = "spawn"]
              [] pidFile.kind = "file" /\ ~n.fin ->
                   /\ effects' = effects \o << <<"killPidFile", k>>, <<"readpid">> >>
                   /\ inv' = [inv EXCEPT ![k].pc = "spawn"]
              [] pidFile.kind = "file" /\ n.fin /\ ~KillsSelf(n.n) ->
                   /\ effects' = effects
                        \o << <<"killPidFile", k>>, <<"readpid">>, <<"kill", n.n>> >>
                   /\ inv' = [inv EXCEPT ![k].pc = "spawn"]
              [] pidFile.kind = "file" /\ n.fin /\ KillsSelf(n.n) ->
                   /\ effects' = effects
                        \o << <<"killPidFile", k>>, <<"readpid">>, <<"kill", n.n>> >>
                   /\ inv' = [inv EXCEPT ![k].pc = "exited", ![k].exitCode = Signalled]
    /\ UNCHANGED <<runVars, pidFile, logFile>>

\* lines 138-146 in invocation k
TwoSpawn(k) ==
    /\ inv[k].pc = "spawn"
    /\ logFile' = File(logFile.data)
    /\ \/ \* spawn throws
          /\ effects' = effects \o LaunchPrefix \o << <<"spawnfail", "throw">> >>
          /\ inv' = [inv EXCEPT ![k].pc = "rejected"]
       \/ \* spawn fails by an 'error' event: child.pid is undefined
          /\ effects' = effects \o LaunchPrefix \o << <<"spawnfail", "event">> >>
          /\ inv' = [inv EXCEPT ![k].pc = "record", ![k].pid = Undef,
                                 ![k].pendingError = TRUE]
       \/ \E p \in SpawnPids \ LaunchedBy(Other(k)) :
            /\ effects' = effects \o LaunchPrefix \o << <<"spawn", p>> >>
            /\ inv' = [inv EXCEPT ![k].pc = "record", ![k].pid = Num(p)]
    /\ UNCHANGED <<runVars, pidFile>>

\* line 147 in invocation k
TwoRecord(k) ==
    /\ inv[k].pc = "record"
    /\ \/ \* writeFileSync throws
          /\ inv' = [inv EXCEPT ![k].pc = "rejected"]
          /\ UNCHANGED <<pidFile, effects>>
       \/ /\ pidFile' = File(StringOf(inv[k].pid))
          /\ effects' = Append(effects, <<"writepid", StringOf(inv[k].pid), k>>)
          /\ inv' = [inv EXCEPT ![k].pc = "confirm"]
    /\ UNCHANGED <<runVars, logFile>>

\* line 306 in invocation k
TwoConfirm(k) ==
    /\ inv[k].pc = "confirm"
    /\ inv' = [inv EXCEPT ![k].pc = "returned",
                          ![k].out = IF Truthy(inv[k].pid)
                                     THEN StringOf(inv[k].pid) ELSE sNone]
    /\ UNCHANGED <<runVars, pidFile, logFile, effects>>

\* the end of invocation k: the catch of lines 309-312, the unhandled
\* 'error' event, or nothing left to run
TwoExit(k) ==
    /\ inv[k].pc \in {"returned", "rejected"}
    /\ inv' = [inv EXCEPT ![k].pc = "exited",
                          ![k].exitCode =
                              IF inv[k].pc = "rejected" \/ inv[k].pendingError
                              THEN Exited(1) ELSE Exited(0)]
    /\ UNCHANGED <<runVars, pidFile, logFile, effects>>

NextTwo ==
    \E k \in 1..2 :
        \/ TwoReclaim(k)
        \/ TwoSpawn(k)
        \/ TwoRecord(k)
        \/ TwoConfirm(k)
        \/ TwoExit(k)

SpecTwo == InitTwo /\ [][NextTwo]_vars

---------------------------------------------------------------------------
(* The validator on its own, over manifests with up to MaxAttrs            *)
(* DefaultValue attributes.                                                *)

\* attribute values: plain, each known escape, and ampersands that start none
AttrValueSamples ==
    { <<"a", "b">>,
      <<"&", "a", "m", "p", ";">>, <<"&", "l", "t", ";">>, <<"&", "g", "t", ";">>,
      <<"&", "q", "u", "o", "t", ";">>, <<"&", "a", "p", "o", "s", ";">>,
      <<"a", "&", "b">>, <<"&", "a", "m", "p">>, <<"&", "a", "m", "p", ";", "&">> }

ManifestHeads ==
    { << Markup("<OfficeApp"), Markup("<Id>"), Markup("SourceLocation") >>,
      << Markup("<OfficeApp") >> }

ValidatorTexts ==
    UNION { { head \o [i \in 1..k |-> DefaultValueAttr(f[i])] :
                head \in ManifestHeads, f \in [1..k -> AttrValueSamples] } :
            k \in 0..MaxAttrs }

InitValidator ==
    /\ args = [NoArgs EXCEPT !.manifest = Str(sManifest)]
    /\ cfg = ResolvedConfig(args)
    /\ pc = "validate"
    /\ manifestFile \in { Manifest(t) : t \in ValidatorTexts }
    /\ executed = <<>>
    /\ issues = <<>>
    /\ pid = Unassigned
    /\ err = <<>>
    /\ pendingError = FALSE
    /\ home = "unread"
    /\ pidFile = Absent
    /\ logFile = Absent
    /\ effects = <<>>
    /\ hcall = [attempts |-> MainAttempts, delayMs |-> MainDelayMs]
    /\ hp = NoHp
    /\ hpResult = "none"
    /\ stdout = <<>>
    /\ stderr = <<>>
    /\ exitCode = Running
    /\ inv = <<Idle, Idle>>

SpecValidator == InitValidator /\ [][Validate]_vars

---------------------------------------------------------------------------
(* Argument resolution on its own, over every spelling boolArg tells apart.*)

BoolArgValues ==
    { Undef, Bool(TRUE), Str(sTrue), Str(sFalse), Str(<<"F", "A", "L", "S", "E">>),
      Str(sZero), Str(sNo), Str(<<"N", "o">>), Str(<<"y", "e", "s">>) }

InitConfig ==
    /\ InitRun
    /\ args \in { [NoArgs EXCEPT !.manifest = m, !.sideload = s, !.restart = r] :
                    m \in {Undef, Str(sManifest)},
                    s \in BoolArgValues, r \in BoolArgValues }
    /\ pidFile = Absent
    /\ hcall = [attempts |-> MainAttempts, delayMs |-> MainDelayMs]

SpecConfig == InitConfig /\ [][ResolveConfig]_vars

---------------------------------------------------------------------------
(* killPidFile on its own, over every pid-file content up to a length.     *)

PidChars == {" ", "0", "7", "x", "-"}

PidFileContents ==
    UNION { [1..n -> PidChars] : n \in 0..MaxPidFileLen }

InitPidFile ==
    /\ args = [NoArgs EXCEPT !.killPort = Str(sFalse)]
    /\ cfg = ResolvedConfig(args)
    /\ manifestFile = Unread
    /\ inv = <<Idle, Idle>>
    /\ pc = "reclaim"
    /\ executed = <<>>
    /\ issues = <<>>
    /\ pid = Unassigned
    /\ err = <<>>
    /\ pendingError = FALSE
    /\ home = "unread"
    /\ logFile = Absent
    /\ effects = <<>>
    /\ hp = NoHp
    /\ hpResult = "none"
    /\ stdout = <<>>
    /\ stderr = <<>>
    /\ exitCode = Running
    /\ pidFile \in {Absent, Unreadable} \cup { File(d) : d \in PidFileContents }
    /\ hcall = [attempts |-> MainAttempts, delayMs |-> MainDelayMs]

SpecPidFile == InitPidFile /\ [][KillPidFile]_vars

---------------------------------------------------------------------------
(* waitForHealth on its own, over a range of attempts and delays, with the *)
(* statements of main() that follow it.                                    *)

InitPoller ==
    /\ args \in { [NoArgs EXCEPT !.restart = r, !.healthUrl = u] :
                    r \in {Undef, Bool(TRUE)}, u \in {Undef, Str(sHealthz)} }
    /\ cfg = ResolvedConfig(args)
    /\ manifestFile = Unread
    /\ inv = <<Idle, Idle>>
    /\ pc = "health"
    /\ executed = <<>>
    /\ issues = <<>>
    /\ pid = Null
    /\ err = <<>>
    /\ pendingError = FALSE
    /\ home = "unread"
    /\ pidFile = Absent
    /\ logFile = Absent
    /\ effects = <<>>
    /\ hp = NoHp
    /\ hpResult = "none"
    /\ stdout = <<>>
    /\ stderr = <<>>
    /\ exitCode = Running
    /\ hcall \in [attempts : 0..MaxAttemptsArg, delayMs : 0..MaxDelayArg]

NextPoller ==
    \/ HealthCheck
    \/ HealthAttempt
    \/ HealthResponse
    \/ HealthSleep
    \/ Restart
    \/ Done
    \/ Exit
    \/ Catch

SpecPoller == InitPoller /\ [][NextPoller]_vars

---------------------------------------------------------------------------
(* What the claims are stated over.                                        *)

Has(seq, x) == \E i \in 1..Len(seq) : seq[i] = x

\* how many calls of one kind were made
Count(tag) == Cardinality({ i \in 1..Len(effects) : effects[i][1] = tag })

\* the time spent suspended: setTimeout waits at least its delay
RECURSIVE SleepSum(_)
SleepSum(log) ==
    IF log = <<>> THEN 0
    ELSE (IF Head(log)[1] = "sleep" THEN Head(log)[2] ELSE 0) + SleepSum(Tail(log))

Rank(state) ==
    CASE state = "VALIDATE" -> 1
      [] state = "CLEAR_CACHE" -> 2
      [] state = "INSTALL" -> 3
      [] state = "RECLAIM_PORT" -> 4
      [] state = "LAUNCH" -> 5
      [] state = "HEALTH_CHECK" -> 6
      [] state = "RESTART_APP" -> 7
      [] state = "DONE" -> 8

Polling == pc \in {"hp_loop", "hp_fetch", "hp_sleep"}
Confirmed == \E i \in 1..Len(stdout) : stdout[i].kind = "ok"
HealthError == <<"server not healthy at ", cfg.healthUrl>>
ReapCalls == Count("killPort") + Count("killPidFile")

---------------------------------------------------------------------------
\* C1: the states that execute do so in the order VALIDATE, CLEAR_CACHE,
\* INSTALL, RECLAIM_PORT, LAUNCH, HEALTH_CHECK, RESTART_APP, DONE, none twice
\* and none after a later one; while the health poll is under way (a request
\* out, or suspended between attempts) HEALTH_CHECK is the last state started,
\* and RESTART_APP or DONE follow HEALTH_CHECK only once the poll has returned.
C1_FixedOrder ==
    /\ \A i, j \in 1..Len(executed) :
         i < j => Rank(executed[i]) < Rank(executed[j])
    /\ Polling => /\ executed[Len(executed)] = "HEALTH_CHECK"
                  /\ hpResult = "running"
    /\ ( Has(executed, "HEALTH_CHECK")
         /\ (Has(executed, "RESTART_APP") \/ Has(executed, "DONE")) )
       => hpResult = "ok"

C1_Witness ==
    /\ pc = "exited"
    /\ executed = << "VALIDATE", "CLEAR_CACHE", "INSTALL", "RECLAIM_PORT", "LAUNCH",
                     "HEALTH_CHECK", "RESTART_APP", "DONE" >>
    /\ Count("sleep") > 0

\* what holds in every state once main() has thrown
C2_AfterThrow ==
    /\ err # <<>> =>
         /\ ~Confirmed
         /\ ~Has(executed, "DONE")
         /\ exitCode.t # "signal"
         /\ exitCode.t = "code" => (exitCode.n = 1 /\ Len(stderr) = 1)
    /\ (exitCode.t = "code" /\ exitCode.n = 0) => (err = <<>> /\ stderr = <<>>)

\* C2: once a state has thrown, no state executes (the failed one is not run
\* again), no external call is made and nothing is written to stdout; the run
\* ends with exit code 1 and exactly one message on stderr.  Exit code 0 is
\* reached only by runs in which nothing was thrown.
C2_AbortOnError ==
    /\ []C2_AfterThrow
    /\ [][ err # <<>> => ( /\ executed' = executed
                           /\ effects' = effects
                           /\ stdout' = stdout
                           /\ err' = err ) ]_vars

C2_Witness ==
    /\ pc = "exited"
    /\ err = <<"spawn ENOMEM">>
    /\ cfg.health
    /\ cfg.restart
    /\ executed[Len(executed)] = "LAUNCH"
    /\ exitCode = Exited(1)

\* C3: when the validator returned defects, the run has thrown
\* "Manifest invalid" with VALIDATE the only state executed and no external
\* call made: no trash, copy, lookup, signal, spawn, file write, request or
\* restart; it ends with exit code 1.
C3_ValidationBeforeEffects ==
    Len(issues) > 0 =>
      /\ Len(effects) = 0
      /\ executed = <<"VALIDATE">>
      /\ err = <<"Manifest invalid: ", issues>>
      /\ logFile = Absent
      /\ pid = Unassigned
      /\ pc \in {"rejected", "exited"}
      /\ pc = "exited" => exitCode = Exited(1)

C3_Witness ==
    /\ pc = "exited"
    /\ Len(issues) = 1
    /\ cfg.clearCache
    /\ cfg.sideload
    /\ cfg.restart
    /\ cfg.serverCmd.t = "string"

\* C4: with attempts >= 1 and delayMs >= 1 the poller uses them as given; it
\* never issues more than maxAttempts requests; it suspends once after every
\* request that did not return ok; it reports health only after an ok
\* response; and when it fails it has issued exactly maxAttempts requests,
\* suspended maxAttempts times for at least (maxAttempts-1)*delayMs in all,
\* and throws the error that names the polled URL.
C4_AlwaysFailingTarget ==
    hpResult # "none" =>
      /\ hcall.attempts >= 1 => hp.maxAttempts = hcall.attempts
      /\ hcall.delayMs >= 1 => hp.waitMs = hcall.delayMs
      /\ Count("fetch") <= hp.maxAttempts
      /\ pc = "hp_loop" => (Count("sleep") = Count("fetch") /\ Count("fetch") = hp.i)
      /\ hpResult = "ok" => hp.last = "ok"
      /\ hpResult = "failed" =>
           /\ hp.last # "ok"
           /\ Count("fetch") = hp.maxAttempts
           /\ Count("sleep") = hp.maxAttempts
           /\ SleepSum(effects) = hp.maxAttempts * hp.waitMs
           /\ SleepSum(effects) >= (hp.maxAttempts - 1) * hp.waitMs
           /\ err = HealthError
           /\ hp.url = cfg.healthUrl

C4_Witness ==
    /\ pc = "exited"
    /\ hpResult = "failed"
    /\ hcall.attempts = MaxAttemptsArg
    /\ hcall.delayMs = MaxDelayArg
    /\ Count("fetch") = MaxAttemptsArg

\* C5: when the poller reports success, the response that ended it was ok,
\* it was the k-th request for some k <= maxAttempts, the k-1 requests before
\* it each failed and were each followed by one suspension, and no request or
\* suspension comes after it, in the poller or in the rest of the run.  At
\* most one request is ever outstanding, and none while suspended.
C5_SucceedsAtAttemptK ==
    /\ Count("fetch") - Count("settled") \in {0, 1}
    /\ pc \in {"hp_loop", "hp_sleep"} => Count("fetch") = Count("settled")
    /\ pc = "hp_fetch" => Count("fetch") = Count("settled") + 1
    /\ hpResult = "ok" =>
         /\ hp.last = "ok"
         /\ Count("fetch") = hp.i + 1
         /\ Count("fetch") <= hp.maxAttempts
         /\ Count("settled") = Count("fetch")
         /\ Count("sleep") = hp.i

C5_Witness ==
    /\ pc = "exited"
    /\ hpResult = "ok"
    /\ hp.maxAttempts = MaxAttemptsArg
    /\ Count("fetch") = MaxAttemptsArg
    /\ Count("sleep") = MaxAttemptsArg - 1
    /\ Has(executed, "RESTART_APP")

\* C6: in main(), when the poller fails it made 12 requests 400 ms apart, no
\* restart call was or is made, no confirmation is written, and the run ends
\* with exit code 1 and the one message naming the URL.  RESTART_APP executes
\* only in runs whose health check was disabled or returned success.
C6_NoRestartAfterFailedHealth ==
    /\ hpResult = "failed" =>
         /\ hp.maxAttempts = MainAttempts
         /\ hp.waitMs = MainDelayMs
         /\ Count("fetch") = MainAttempts
         /\ ~Has(executed, "RESTART_APP")
         /\ Count("quit") + Count("open") + Count("openfail") = 0
         /\ ~Confirmed
         /\ pc \in {"rejected", "exited"}
         /\ pc = "exited" => (exitCode = Exited(1) /\ stderr = <<HealthError>>)
    /\ Has(executed, "RESTART_APP") => (~cfg.health \/ hpResult = "ok")

C6_Witness ==
    /\ pc = "exited"
    /\ hpResult = "failed"
    /\ cfg.restart
    /\ args.restart.t = "string"
    /\ ~cfg.sideload

\* C7 as stated: every run (other than a request for the usage text) has
\* attempted exactly one of the two reapers by the time it ends.
C7_ExactlyOneInEveryRun ==
    (pc = "exited" /\ ~Truthy(args.help)) => ReapCalls = 1

\* C7, amended: a run that reaches RECLAIM_PORT attempts exactly one of the
\* two reapers, the port reaper when kill-port resolves to true and the
\* pid-file reaper otherwise; a run that ends before RECLAIM_PORT attempts
\* neither.
C7_ExactlyOneOnceReached ==
    /\ Has(executed, "RECLAIM_PORT") =>
         /\ ReapCalls = 1
         /\ cfg.killPortFlag => Count("killPort") = 1
         /\ ~cfg.killPortFlag => Count("killPidFile") = 1
    /\ ~Has(executed, "RECLAIM_PORT") => ReapCalls = 0

C7_Witness ==
    /\ pc = "exited"
    /\ Has(executed, "RECLAIM_PORT")
    /\ ~cfg.killPortFlag
    /\ Count("killPidFile") = 1
    /\ Count("kill") = 1
    /\ exitCode = Exited(0)

\* the contents that are the decimal identifier of a process
IsProcessId(data) ==
    LET t == Trim(data) IN AllDigits(t) /\ DecimalValue(t) >= 1

\* C8: killPidFile on a missing pid file, on an empty or blank one and on one
\* holding a letter returns without error and makes no signal call; a signal
\* call is made only when the content is the identifier of a process.
C8_BadPidFileIsNoOp ==
    Has(executed, "RECLAIM_PORT") =>
      /\ ( \/ pidFile.kind = "absent"
           \/ pidFile.kind = "file" /\ Trim(pidFile.data) = <<>>
           \/ pidFile.kind = "file" /\ Has(pidFile.data, "x") )
         => (Count("kill") = 0 /\ err = <<>> /\ exitCode = Running)
      /\ Count("kill") > 0 => (pidFile.kind = "file" /\ IsProcessId(pidFile.data))

\* the spellings that mean false
FalseWords == { sFalse, <<"F", "A", "L", "S", "E">>, sZero, sNo, <<"N", "o">> }
Given(v) == v.t # "undefined"
Meant(v) == IF v.t = "boolean" THEN v.b ELSE v.s \notin FalseWords

\* C9: once resolved, install is the explicit flag when given and otherwise
\* "a manifest path was given"; restart is the explicit flag when given and
\* otherwise the resolved install value.  A manifest alone gives install and
\* restart; no option at all gives neither.
C9_InstallRestartDefaults ==
    pc # "main" =>
      LET hasManifest == Given(args.manifest) IN
      /\ cfg.sideload = IF Given(args.sideload) THEN Meant(args.sideload) ELSE hasManifest
      /\ cfg.restart = IF Given(args.restart) THEN Meant(args.restart) ELSE cfg.sideload
      /\ (hasManifest /\ ~Given(args.sideload) /\ ~Given(args.restart))
           => (cfg.sideload /\ cfg.restart)
      /\ (~hasManifest /\ ~Given(args.sideload) /\ ~Given(args.restart))
           => (~cfg.sideload /\ ~cfg.restart)

C9_Witness ==
    /\ pc = "validate"
    /\ Given(args.manifest)
    /\ Given(args.sideload)
    /\ args.sideload.t = "string"
    /\ args.sideload.s = <<"N", "o">>
    /\ ~Given(args.restart)
    /\ ~cfg.sideload
    /\ ~cfg.restart

\* C10: when the confirmation has been written in a run with a server
\* command, exactly one process was spawned in the run, the pid file holds
\* its identifier, the confirmation reports that identifier and the port,
\* and no signal call was made after the spawn.
C10_ConfirmedRunLaunchedOnce ==
    (Confirmed /\ cfg.serverCmd.t = "string") =>
      /\ Count("spawn") = 1
      /\ \A i \in 1..Len(effects) :
           effects[i][1] = "spawn" =>
             /\ pidFile = File(DecimalString(effects[i][2]))
             /\ stdout[Len(stdout)].pid = DecimalString(effects[i][2])
             /\ stdout[Len(stdout)].port = cfg.port
             /\ \A j \in (i + 1)..Len(effects) : effects[j][1] # "kill"

---------------------------------------------------------------------------
\* C11: when no server command is given, LAUNCH is a no-op: the step spawns
\* nothing, leaves the pid file and the log file exactly as they were (a
\* stale identifier persists), returns no identifier and hands over to
\* HEALTH_CHECK; and a run that is confirmed reports the identifier "none".
C11_LaunchStep ==
    (pc = "launch" /\ cfg.serverCmd.t = "null")
        => /\ pidFile' = pidFile
           /\ logFile' = logFile
           /\ effects' = effects
           /\ pid' = Null
           /\ err' = err
           /\ pc' = "health"

C11_NoCommandNoLaunch ==
    /\ [][C11_LaunchStep]_vars
    /\ []((pc # "main" /\ cfg.serverCmd.t = "null")
            => /\ Count("spawn") = 0
               /\ Count("spawnfail") = 0
               /\ Count("openlog") = 0
               /\ Count("writepid") = 0
               /\ logFile = Absent
               /\ \A i \in 1..Len(stdout) :
                     stdout[i].kind = "ok" => stdout[i].pid = sNone)

C11_Witness ==
    /\ cfg.serverCmd.t = "null"
    /\ Has(executed, "LAUNCH")
    /\ Has(executed, "HEALTH_CHECK")
    /\ pidFile = File(<<"7">>)
    /\ Confirmed

---------------------------------------------------------------------------
\* C12: if the background process cannot be started, the run fails at LAUNCH
\* with the spawn error: the pid file is not overwritten with a value that
\* is not a process identifier, no health request is issued, no app restart
\* is attempted, the run exits 1, and the spawn is not retried.
C12_SpawnFailureAborts ==
    Count("spawnfail") > 0
        => /\ err # <<>>
           /\ executed[Len(executed)] = "LAUNCH"
           /\ Count("writepid") = 0
           /\ pidFile.kind = "file" => (pidFile.data = <<>> \/ IsProcessId(pidFile.data))
           /\ Count("fetch") = 0
           /\ Count("quit") = 0
           /\ stdout = <<>>
           /\ Count("spawnfail") + Count("spawn") = 1
           /\ pc = "exited" => exitCode = Exited(1)

---------------------------------------------------------------------------
\* a governing flag is false: given as one of the false words, or resolved
\* to false by main()
FlagOff(given, resolved) ==
    \/ Given(given) /\ ~Meant(given)
    \/ pc # "main" /\ ~resolved

\* the step of a skipped state: nothing but main's position changes
SkipStep(next) ==
    /\ pc' = next
    /\ err' = err
    /\ executed' = executed
    /\ UNCHANGED <<osVars, ioVars, hpVars, issues, pid, pendingError, manifestFile>>

\* C13: each optional state is skipped entirely when its governing flag is
\* false (no validation, no cache-clear call, no install call, no health
\* request, no restart call); the skipped state has no side effect, cannot
\* fail the run, and the next state still executes.
C13_NothingDoneWhenOff ==
    /\ FlagOff(args.validate, cfg.validate)
         => ~Has(executed, "VALIDATE") /\ issues = <<>> /\ manifestFile = Unread
    /\ FlagOff(args.clearCache, cfg.clearCache)
         => ~Has(executed, "CLEAR_CACHE") /\ Count("trash") = 0
    /\ FlagOff(args.sideload, cfg.sideload)
         => ~Has(executed, "INSTALL") /\ Count("copy") = 0
    /\ FlagOff(args.health, cfg.health)
         => /\ ~Has(executed, "HEALTH_CHECK")
            /\ Count("fetch") = 0 /\ Count("sleep") = 0 /\ hpResult = "none"
    /\ FlagOff(args.restart, cfg.restart)
         => /\ ~Has(executed, "RESTART_APP")
            /\ Count("quit") = 0 /\ Count("open") = 0 /\ Count("openfail") = 0

C13_SkipSteps ==
    /\ (pc = "validate" /\ FlagOff(args.validate, cfg.validate)) => SkipStep("clearCache")
    /\ (pc = "clearCache" /\ FlagOff(args.clearCache, cfg.clearCache)) => SkipStep("sideload")
    /\ (pc = "sideload" /\ FlagOff(args.sideload, cfg.sideload)) => SkipStep("reclaim")
    /\ (pc = "health" /\ FlagOff(args.health, cfg.health)) => SkipStep("restart")
    /\ (pc = "restart" /\ FlagOff(args.restart, cfg.restart)) => SkipStep("done")

C13_SkippedWhenFlagFalse == []C13_NothingDoneWhenOff /\ [][C13_SkipSteps]_vars

C13_Witness ==
    /\ Truthy(args.manifest)
    /\ FlagOff(args.validate, cfg.validate)
    /\ FlagOff(args.clearCache, cfg.clearCache)
    /\ FlagOff(args.sideload, cfg.sideload)
    /\ FlagOff(args.health, cfg.health)
    /\ FlagOff(args.restart, cfg.restart)
    /\ executed = <<"RECLAIM_PORT", "LAUNCH", "DONE">>
    /\ exitCode = Exited(0)

---------------------------------------------------------------------------
\* the five escapes the claim lists
C14_Escapes ==
    { <<"&", "a", "m", "p", ";">>, <<"&", "l", "t", ";">>, <<"&", "g", "t", ";">>,
      <<"&", "q", "u", "o", "t", ";">>, <<"&", "a", "p", "o", "s", ";">> }

\* some '&' of the value starts none of the five escapes
C14_Offends(v) ==
    \E i \in 1..Len(v) :
        /\ v[i] = "&"
        /\ \A e \in C14_Escapes :
              ~(i + Len(e) - 1 <= Len(v) /\ SubSeq(v, i, i + Len(e) - 1) = e)

\* the positions of the offending DefaultValue attributes in the manifest
C14_Offenders ==
    { i \in 1..Len(manifestFile.text) :
        manifestFile.text[i].seg = "attr" /\ C14_Offends(manifestFile.text[i].v) }

C14_AmpDefects ==
    SelectSeq(issues, LAMBDA d : d[1] = "unescaped & in DefaultValue: ")

C14_Validated == pc \in {"clearCache", "rejected"} /\ manifestFile.kind = "file"

\* C14: the validator reports an ampersand defect iff some DefaultValue value
\* has a '&' that starts none of the five escapes; then it reports exactly
\* one, naming the first offending value in document order, however many
\* values offend; it reports none when every '&' starts a known escape or
\* no attribute exists.  The validator leaves the text alone and a second
\* run on it yields the same defect list.
C14_OneDefectForFirstOffender ==
    C14_Validated
        => /\ C14_Offenders = {} => C14_AmpDefects = <<>>
           /\ C14_Offenders # {} =>
                LET first == CHOOSE i \in C14_Offenders :
                                 \A j \in C14_Offenders : i <= j
                    v == manifestFile.text[first].v
                IN C14_AmpDefects =
                     << <<"unescaped & in DefaultValue: ",
                          SubSeq(v, 1, Min(IssueValueLimit, Len(v)))>> >>
           /\ validateManifestText(manifestFile.text) = issues

C14_AmpersandCheck ==
    /\ []C14_OneDefectForFirstOffender
    /\ [][manifestFile.kind = "file" => manifestFile' = manifestFile]_vars

C14_Witness ==
    /\ C14_Validated
    /\ Cardinality(C14_Offenders) >= 2
    /\ \E i \in 1..Len(manifestFile.text) :
          /\ manifestFile.text[i].seg = "attr"
          /\ i \notin C14_Offenders
          /\ \E e \in C14_Escapes : manifestFile.text[i].v = e
          /\ \A j \in C14_Offenders : i < j
    /\ Len(C14_AmpDefects) = 1

---------------------------------------------------------------------------
\* the process identifier the pid file records, while LAUNCH has not
\* rewritten the file
RecordedPid == NumberOfString(Trim(pidFile.data))
SignalSentTo(n) == \E i \in 1..Len(effects) : effects[i] = <<"kill", n>>

C15_OnlyTheFlagSelects ==
    /\ (pc # "main" /\ cfg.killPortFlag)
         => Count("killPidFile") = 0 /\ Count("readpid") = 0
    /\ (pc # "main" /\ ~cfg.killPortFlag)
         => Count("killPort") = 0 /\ Count("lsof") = 0
    /\ ~(Count("killPort") > 0 /\ Count("killPidFile") > 0)

\* C15 as stated: the two reap mechanisms are mutually exclusive and selected
\* only by the kill-port flag: with kill-port true the pid file is never read
\* and no signal is sent to the identifier it records; with kill-port false
\* the port lookup is never performed; in no run are both invoked.
C15_ExclusiveAndRecordedPidSpared ==
    /\ C15_OnlyTheFlagSelects
    /\ (pc # "main" /\ cfg.killPortFlag /\ Count("writepid") = 0
            /\ pidFile.kind = "file" /\ RecordedPid.fin)
         => ~SignalSentTo(RecordedPid.n)

\* C15, amended: the two reap mechanisms are mutually exclusive and selected
\* only by the kill-port flag: with kill-port true the pid file is never read
\* and every signal sent follows the port lookup (the recorded process is
\* signalled only as a listener on the port); with kill-port false the port
\* lookup is never performed; in no run are both invoked.
C15_ExclusiveByFlag ==
    /\ C15_OnlyTheFlagSelects
    /\ (pc # "main" /\ cfg.killPortFlag)
         => \A i \in 1..Len(effects) :
              effects[i][1] = "kill"
                  => \E j \in 1..(i - 1) : effects[j][1] = "lsof"

C15_Witness ==
    /\ cfg.killPortFlag
    /\ Count("writepid") = 0
    /\ pidFile = File(<<"7">>)
    /\ SignalSentTo(7)
    /\ Count("lsof") = 1
    /\ Has(executed, "LAUNCH")

---------------------------------------------------------------------------
\* C16: RECLAIM_PORT is best-effort and never aborts the run: whatever the
\* lookup or the signals do, the reaper returns normally and LAUNCH executes
\* next; and every identifier the lookup returns is sent exactly one
\* termination signal.
C16_ReclaimNeverAborts ==
    (executed # <<>> /\ executed[Len(executed)] = "RECLAIM_PORT")
        => /\ pc = "launch"
           /\ err = <<>>
           /\ exitCode = Running
           /\ \A i, j \in 1..Len(effects) :
                 (effects[i][1] = "kill" /\ effects[i] = effects[j]) => i = j

---------------------------------------------------------------------------
\* the positions in the call log at which a process was launched
Launches == { i \in 1..Len(effects) : effects[i][1] = "spawn" }
LastLaunch == CHOOSE i \in Launches : \A j \in Launches : j <= i

\* C17: across invocations one after another that share one pid file, run
\* with kill-port false and a server command: at every LAUNCH every process
\* launched by an earlier invocation has already been signalled, and the
\* pid file always names the most recently launched process.
C17_EarlierLaunchesSignalled ==
    /\ pc = "launch"
         => \A i \in Launches :
              \E j \in (i + 1)..Len(effects) : effects[j] = <<"kill", effects[i][2]>>
    /\ Launches # {}
         => pidFile = File(StringOf(Num(effects[LastLaunch][2])))

---------------------------------------------------------------------------
\* the call log only grows, and the files change only by a call
C18_EffectsStay ==
    /\ Len(effects') >= Len(effects)
    /\ SubSeq(effects', 1, Len(effects)) = effects
    /\ effects' = effects => (pidFile' = pidFile /\ logFile' = logFile)

\* the health check failed after INSTALL and LAUNCH succeeded
C18_HealthFailedAfterLaunch ==
    /\ hpResult = "failed"
    /\ Has(executed, "INSTALL")
    /\ pid.t = "number"

\* C18: no rollback: when a state fails, what the earlier states did is left
\* in place; when HEALTH_CHECK fails after INSTALL and LAUNCH succeeded, the
\* artifact stays installed, the launched process is not signalled by the
\* orchestrator, and the pid file still holds the launched identifier.
C18_LeftInPlace ==
    C18_HealthFailedAfterLaunch
        => /\ Count("copy") = Len(sideloadTargets(cfg.appValue))
           /\ Count("trash") = 0 \/ Has(executed, "CLEAR_CACHE")
           /\ pidFile = File(StringOf(pid))
           /\ logFile.kind = "file"
           /\ \A i \in Launches :
                 \A j \in (i + 1)..Len(effects) : effects[j][1] # "kill"

C18_NoRollback == []C18_LeftInPlace /\ [][C18_EffectsStay]_vars

C18_Witness ==
    /\ C18_HealthFailedAfterLaunch
    /\ Count("copy") > 0
    /\ pidFile = File(StringOf(pid))
    /\ pc = "exited"
    /\ exitCode = Exited(1)

---------------------------------------------------------------------------
\* C19: every run ends in DONE with exit code 0 or in the abort outcome with
\* exit code 1, and the health poll, the only loop, issues at most 12
\* requests and suspends at most 12 times per run.
C19_EndsDoneOrAbort ==
    /\ pc = "exited"
         => \/ exitCode = Exited(0) /\ (Has(executed, "DONE") \/ Truthy(args.help))
            \/ exitCode = Exited(1) /\ stderr # <<>>
    /\ Count("fetch") <= MainAttempts
    /\ Count("sleep") <= MainAttempts

---------------------------------------------------------------------------
\* the invocation whose record step ran last
Records == { i \in 1..Len(effects) : effects[i][1] = "writepid" }
LastRecorder == effects[CHOOSE i \in Records : \A j \in Records : j <= i][3]

\* C20: with two invocations interleaved on one pid file, each with a server
\* command: every interleaving ends with the pid file holding the
\* identifier of the process whose record step ran last, each confirmation
\* reports the invocation's own launched identifier, and the pid file never
\* ends holding a value that is not the identifier of one of the launched
\* processes.
C20_LastWriterWins ==
    ((\A k \in 1..2 : inv[k].pc = "exited" /\ inv[k].pid.t # "unassigned")
        /\ (\E k \in 1..2 : inv[k].pid.t = "number")
        /\ Records # {})
        => /\ inv[LastRecorder].pid.t = "number"
           /\ pidFile = File(StringOf(inv[LastRecorder].pid))
           /\ \E k \in 1..2 :
                 inv[k].pid.t = "number" /\ pidFile.data = StringOf(inv[k].pid)
           /\ \A k \in 1..2 :
                 inv[k].out # <<>>
                     => inv[k].pid.t = "number" /\ inv[k].out = StringOf(inv[k].pid)

====
